---- MODULE Spec2Model ----
(***************************************************************************)
(* Model of src/predict.py: Predictor.setup (weight selection and model    *)
(* loading) and Predictor.predict (a generation thread feeding a           *)
(* TextIteratorStreamer queue that the generator body of predict consumes  *)
(* and reshapes into the yielded text chunks).                             *)
(*                                                                         *)
(* Python strings are TLA+ strings; the string operations the code uses    *)
(* (==, endswith, slicing, strip, +, len) are operators below, computed    *)
(* character by character as Python computes them.                         *)
(***************************************************************************)
EXTENDS Integers, Sequences, FiniteSets, TLC

VARIABLES
    weights,        \* setup's weights argument: None or a Path (its sequence of parts)
    archive,        \* the members of the tar archive found at the weights URL
    spc,            \* position in setup
    downloaded,     \* the default weights download_weights has fetched, in order
    torch_init_off, \* disable_torch_init() has been called
    custom_dir,     \* the directory /src/custom_weights: whether it exists, its files
    dir_before,     \* /src/custom_weights as it was when setup was called
    pget_calls,     \* the URLs pget has been run with, in order
    loaded,         \* the calls of load_pretrained_model made so far
    max_tokens,     \* predict's max_tokens argument (max_new_tokens of generate)
    thread,         \* the generation thread: "created", "running", "ending", "terminated"
    gen_failed,     \* model.generate raised on the generation thread
    streamed,       \* every text chunk the streamer has put on its queue, in order
    stop_signal,    \* the streamer's end-of-stream signal has been put on the queue
    nread,          \* number of chunks the main thread has taken from the queue
    pc,             \* position of the main thread in predict
    prepend_space,  \* the local variable prepend_space
    yielded,        \* the chunks predict has yielded, each with the index of the
                    \* streamed chunk it was made from and whether a space was prepended
    error,          \* the exception that ended predict, "none" if none
    joined          \* thread.join() has returned

setupVars == <<weights, archive, spc, downloaded, torch_init_off, custom_dir,
               dir_before, pget_calls, loaded>>

predictVars == <<max_tokens, thread, gen_failed, streamed, stop_signal, nread, pc,
                 prepend_space, yielded, error, joined>>

vars == <<setupVars, predictVars>>

(***************************************************************************)
(* Bounds and input sets                                                   *)
(***************************************************************************)
\* largest max_tokens a request is made with
MaxTokens == 2

\* largest max_tokens of a request whose progress is checked under fairness
FairMaxTokens == 1

\* most parts a weights path has
MaxPathParts == 2

\* the stop string of the "llava_v1" conversation template (its sep2, "</s>")
stop_str == "</s>"

\* text fragments the streamed chunks are built from
Pieces == {"", " ", "a", stop_str}

\* the chunks the streamer may deliver: empty, a single space, text with and
\* without surrounding spaces, text ending with the stop string (once or twice),
\* and the two halves of a stop string split across chunks
Chunks == {p \o q : p \in Pieces, q \in Pieces} \cup {"</", "s>"}

(***************************************************************************)
(* Python string operations                                                *)
(***************************************************************************)
\* s.endswith(suffix)
EndsWith(s, suffix) ==
    /\ Len(suffix) <= Len(s)
    /\ SubSeq(s, Len(s) - Len(suffix) + 1, Len(s)) = suffix

\* s[:-n] for n = len(stop_str): s[:-0] is s[:0], the empty string
SliceToMinus(s, n) ==
    IF n = 0 \/ n >= Len(s) THEN "" ELSE SubSeq(s, 1, Len(s) - n)

\* the characters str.strip() removes
Whitespace == {" ", "\t", "\n", "\r"}

RECURSIVE LStrip(_)
LStrip(s) ==
    IF Len(s) > 0 /\ SubSeq(s, 1, 1) \in Whitespace
    THEN LStrip(SubSeq(s, 2, Len(s)))
    ELSE s

RECURSIVE RStrip(_)
RStrip(s) ==
    IF Len(s) > 0 /\ SubSeq(s, Len(s), Len(s)) \in Whitespace
    THEN RStrip(SubSeq(s, 1, Len(s) - 1))
    ELSE s

\* s.strip()
Strip(s) == LStrip(RStrip(s))

\* sub in s
Contains(s, sub) ==
    \E i \in 1..(Len(s) - Len(sub) + 1) : SubSeq(s, i, i + Len(sub) - 1) = sub

\* "".join(seq)
RECURSIVE Concat(_)
Concat(seq) == IF seq = <<>> THEN "" ELSE Head(seq) \o Concat(Tail(seq))

(***************************************************************************)
(* setup (lines 27-60)                                                     *)
(***************************************************************************)
\* a Path has at least one part: the empty sequence stands for None
None == <<>>

\* the entries of file_utils.DEFAULT_WEIGHTS: the base model and its vision tower
DEFAULT_WEIGHTS == <<"llava-v1.5-13b", "clip-vit-large-patch14-336">>

\* names a weights path is made of
PathParts == {"weights", "w"}

\* the Path values setup is called with
Paths == UNION {[1..n -> PathParts] : n \in 1..MaxPathParts}

\* what the archive at the weights URL may hold
ArchiveMembers == {"adapter_model.bin", "config.json"}

\* what /src/custom_weights may look like before setup
NoDir == [exists |-> FALSE, files |-> {}]
Dir(files) == [exists |-> TRUE, files |-> files]
DirsBefore == {NoDir, Dir({}), Dir({"stale.bin"}), Dir({"custom_weights.tar", "stale.bin"})}

\* str(path): the parts joined by "/"
RECURSIVE PathStr(_)
PathStr(path) ==
    IF Len(path) = 1 THEN path[1]
    ELSE path[1] \o "/" \o PathStr(Tail(path))

\* line 38 without the comparison with "weights"
AnyWeightsGiven(w) == w # None

\* line 38: weights is not None and str(weights) != "weights"
UseCustomWeights(w) == w # None /\ PathStr(w) # "weights"

\* line 56: load_pretrained_model(custom_weights_dir, ...)
CustomModel == [path |-> "/src/custom_weights",
                model_name |-> "llava-v1.5-13b-custom-lora",
                model_base |-> "liuhaotian/llava-v1.5-13b"]

\* line 60: load_pretrained_model("liuhaotian/llava-v1.5-13b", ...)
BaseModel == [path |-> "liuhaotian/llava-v1.5-13b",
              model_name |-> "llava-v1.5-13b",
              model_base |-> "None"]

\* lines 33-34: one pass of the loop over DEFAULT_WEIGHTS
DownloadDefault ==
    /\ spc = "download"
    /\ Len(downloaded) < Len(DEFAULT_WEIGHTS)
    /\ downloaded' = Append(downloaded, DEFAULT_WEIGHTS[Len(downloaded) + 1])
    /\ UNCHANGED <<weights, archive, spc, torch_init_off, custom_dir, dir_before,
                   pget_calls, loaded, predictVars>>

\* line 35, then the test of line 38
DisableTorchInit ==
    /\ spc = "download"
    /\ Len(downloaded) = Len(DEFAULT_WEIGHTS)
    /\ torch_init_off' = TRUE
    /\ spc' = IF UseCustomWeights(weights) THEN "rmtree" ELSE "load_base"
    /\ UNCHANGED <<weights, archive, downloaded, custom_dir, dir_before,
                   pget_calls, loaded, predictVars>>

\* lines 42-47: remove the folder if it exists, then make it
RemakeDir ==
    /\ spc = "rmtree"
    /\ custom_dir' = Dir(IF custom_dir.exists THEN {} ELSE custom_dir.files)
    /\ spc' = "pget"
    /\ UNCHANGED <<weights, archive, downloaded, torch_init_off, dir_before,
                   pget_calls, loaded, predictVars>>

\* lines 48-50: pget str(weights) to custom_weights.tar
Pget ==
    /\ spc = "pget"
    /\ pget_calls' = Append(pget_calls, PathStr(weights))
    /\ custom_dir' = Dir(custom_dir.files \cup {"custom_weights.tar"})
    /\ spc' = "extract"
    /\ UNCHANGED <<weights, archive, downloaded, torch_init_off, dir_before,
                   loaded, predictVars>>

\* lines 53-54: extract the archive into the folder
Extract ==
    /\ spc = "extract"
    /\ custom_dir' = Dir(custom_dir.files \cup archive)
    /\ spc' = "load_custom"
    /\ UNCHANGED <<weights, archive, downloaded, torch_init_off, dir_before,
                   pget_calls, loaded, predictVars>>

\* line 56
LoadCustom ==
    /\ spc = "load_custom"
    /\ loaded' = Append(loaded, CustomModel)
    /\ spc' = "done"
    /\ UNCHANGED <<weights, archive, downloaded, torch_init_off, custom_dir,
                   dir_before, pget_calls, predictVars>>

\* line 60
LoadBase ==
    /\ spc = "load_base"
    /\ loaded' = Append(loaded, BaseModel)
    /\ spc' = "done"
    /\ UNCHANGED <<weights, archive, downloaded, torch_init_off, custom_dir,
                   dir_before, pget_calls, predictVars>>

\* download_weights, pget, tarfile or load_pretrained_model raises: setup raises
SetupFail ==
    /\ \/ spc = "download" /\ Len(downloaded) < Len(DEFAULT_WEIGHTS)
       \/ spc \in {"pget", "extract", "load_custom", "load_base"}
    /\ spc' = "raised"
    /\ UNCHANGED <<weights, archive, downloaded, torch_init_off, custom_dir,
                   dir_before, pget_calls, loaded, predictVars>>

(***************************************************************************)
(* predict: the decode loop (lines 105-121)                                *)
(***************************************************************************)
\* line 109: new_text == " "
IsSpace(new_text) == new_text = " "

\* line 112: new_text.endswith(stop_str)
EndsWithStop(new_text) == EndsWith(new_text, stop_str)

\* line 113: new_text[:-len(stop_str)].strip()
StripStop(new_text) == Strip(SliceToMinus(new_text, Len(stop_str)))

\* line 116: " " + new_text
PrependSpace(new_text) == " " \o new_text

\* lines 114 and 117 left out: the flag stays set
KeepPrependSpace == TRUE

\* lines 114 and 117: prepend_space after a chunk that is not a single space
ResetPrependSpace == FALSE

\* line 118 left out: every chunk is yielded
AlwaysYield(new_text) == TRUE

\* line 118: if len(new_text)
ShouldYield(new_text) == Len(new_text) > 0

\* lines 112-117: the text a chunk that is not a single space becomes
Reshape(new_text, prepend) ==
    IF EndsWithStop(new_text) THEN StripStop(new_text)
    ELSE IF prepend THEN PrependSpace(new_text)
    ELSE new_text

\* a yielded chunk: its text, the index in `streamed` of the chunk it was made
\* from, and whether the held-back space was put in front of it
Yield(text, src, sp) == [text |-> text, src |-> src, sp |-> sp]

YieldedText == [k \in 1..Len(yielded) |-> yielded[k].text]

(***************************************************************************)
(* The streamer's queue (TextIteratorStreamer, line 91)                    *)
(***************************************************************************)
\* a streamer built without a timeout: a get on an empty queue waits for ever
NoTimeout == FALSE

\* the streamer is built with timeout=20.0: a get on an empty queue gives up
HasTimeout == TRUE

\* the queue holds a chunk the main thread has not taken yet
QueueHasChunk == nread < Len(streamed)

\* the end-of-stream signal is not recognised when it is taken from the queue
StopSignalMissed == FALSE

\* the next item of the queue is the end-of-stream signal
QueueAtStopSignal == nread = Len(streamed) /\ stop_signal

\* the queue is empty
QueueEmpty == nread = Len(streamed) /\ ~stop_signal

(***************************************************************************)
(* The generation thread: model.generate(..., streamer=streamer)           *)
(***************************************************************************)
\* line 104: thread.start(), then prepend_space = False (line 107)
StartThread ==
    /\ pc = "start"
    /\ thread = "created"
    /\ thread' = "running"
    /\ prepend_space' = FALSE
    /\ pc' = "next"
    /\ UNCHANGED <<setupVars, max_tokens, gen_failed, streamed, stop_signal, nread,
                   yielded, error, joined>>

\* generate decodes a token and the streamer puts the text it finalises (possibly
\* empty) on the queue; at most max_new_tokens tokens are generated
GenPut(c) ==
    /\ thread = "running"
    /\ Len(streamed) < max_tokens
    /\ streamed' = Append(streamed, c)
    /\ UNCHANGED <<setupVars, max_tokens, thread, gen_failed, stop_signal, nread, pc,
                   prepend_space, yielded, error, joined>>

\* generate stops (stopping criteria, end of sequence or max_new_tokens) and calls
\* streamer.end(): the remaining text, then the end-of-stream signal
GenEnd(c) ==
    /\ thread = "running"
    /\ streamed' = Append(streamed, c)
    /\ stop_signal' = TRUE
    /\ thread' = "ending"
    /\ UNCHANGED <<setupVars, max_tokens, gen_failed, nread, pc, prepend_space, yielded,
                   error, joined>>

\* generate returns and the thread terminates
GenReturn ==
    /\ thread = "ending"
    /\ thread' = "terminated"
    /\ UNCHANGED <<setupVars, max_tokens, gen_failed, streamed, stop_signal, nread, pc,
                   prepend_space, yielded, error, joined>>

\* generate raises: the thread dies, streamer.end() is never called
GenFail ==
    /\ thread = "running"
    /\ thread' = "terminated"
    /\ gen_failed' = TRUE
    /\ UNCHANGED <<setupVars, max_tokens, streamed, stop_signal, nread, pc,
                   prepend_space, yielded, error, joined>>

(***************************************************************************)
(* The main thread: the generator body of predict                          *)
(***************************************************************************)
\* line 108 gets the next chunk, lines 109-119 handle it
StreamerNext ==
    /\ pc = "next"
    /\ QueueHasChunk
    /\ nread' = nread + 1
    /\ LET new_text == streamed[nread + 1] IN
         IF IsSpace(new_text)
         THEN /\ prepend_space' = TRUE
              /\ pc' = "next"
              /\ UNCHANGED yielded
         ELSE LET text == Reshape(new_text, prepend_space)
                  sp   == ~EndsWithStop(new_text) /\ prepend_space
              IN /\ prepend_space' =
                        IF EndsWithStop(new_text) \/ prepend_space
                        THEN ResetPrependSpace ELSE prepend_space
                 /\ IF ShouldYield(text)
                    THEN /\ yielded' = Append(yielded, Yield(text, nread + 1, sp))
                         /\ pc' = "yield"
                    ELSE /\ pc' = "next"
                         /\ UNCHANGED yielded
    /\ UNCHANGED <<setupVars, max_tokens, thread, gen_failed, streamed, stop_signal,
                   error, joined>>

\* line 108 gets the end-of-stream signal: the loop ends; lines 120-121
StreamerStop ==
    /\ pc = "next"
    /\ QueueAtStopSignal
    /\ IF prepend_space
       THEN /\ yielded' = Append(yielded, Yield(" ", nread, FALSE))
            /\ pc' = "yield_space"
       ELSE /\ pc' = "join"
            /\ UNCHANGED yielded
    /\ UNCHANGED <<setupVars, max_tokens, thread, gen_failed, streamed, stop_signal,
                   nread, prepend_space, error, joined>>

\* line 108 waits 20 seconds on an empty queue: queue.Empty is raised
StreamerTimeout ==
    /\ pc = "next"
    /\ QueueEmpty
    /\ HasTimeout
    /\ pc' = "raised"
    /\ error' = "Empty"
    /\ UNCHANGED <<setupVars, max_tokens, thread, gen_failed, streamed, stop_signal,
                   nread, prepend_space, yielded, joined>>

\* the caller asks for the next chunk: the generator resumes after its yield
Resume ==
    /\ pc \in {"yield", "yield_space"}
    /\ pc' = IF pc = "yield" THEN "next" ELSE "join"
    /\ UNCHANGED <<setupVars, max_tokens, thread, gen_failed, streamed, stop_signal,
                   nread, prepend_space, yielded, error, joined>>

\* the caller stops consuming: the generator is closed at its yield
\* (GeneratorExit); no finally clause, so nothing else of predict runs
Close ==
    /\ pc \in {"yield", "yield_space"}
    /\ pc' = "closed"
    /\ error' = "GeneratorExit"
    /\ UNCHANGED <<setupVars, max_tokens, thread, gen_failed, streamed, stop_signal,
                   nread, prepend_space, yielded, joined>>

\* line 122 left out: predict does not wait for the thread
JoinDoesNotWait == TRUE

\* thread.join() returns once the thread has terminated
JoinReturns == thread = "terminated"

\* line 122: thread.join(), then the generator is exhausted
ThreadJoin ==
    /\ pc = "join"
    /\ JoinReturns
    /\ joined' = TRUE
    /\ pc' = "done"
    /\ UNCHANGED <<setupVars, max_tokens, thread, gen_failed, streamed, stop_signal,
                   nread, prepend_space, yielded, error>>

\* predict's state when it is called
PredictStart(limit) ==
    /\ max_tokens \in 0..limit
    /\ thread = "created"
    /\ gen_failed = FALSE
    /\ streamed = <<>>
    /\ stop_signal = FALSE
    /\ nread = 0
    /\ pc = "start"
    /\ prepend_space = FALSE
    /\ yielded = <<>>
    /\ error = "none"
    /\ joined = FALSE

\* the predictor after setup() has loaded the base model
SetupDone ==
    /\ weights = None
    /\ archive = {}
    /\ spc = "done"
    /\ downloaded = DEFAULT_WEIGHTS
    /\ torch_init_off = TRUE
    /\ custom_dir = NoDir
    /\ dir_before = NoDir
    /\ pget_calls = <<>>
    /\ loaded = <<BaseModel>>

\* a request arrives at a predictor that has been set up
Init == SetupDone /\ PredictStart(MaxTokens)

Next ==
    \/ StartThread
    \/ \E c \in Chunks : GenPut(c)
    \/ \E c \in Chunks : GenEnd(c)
    \/ GenReturn
    \/ GenFail
    \/ StreamerNext
    \/ StreamerStop
    \/ StreamerTimeout
    \/ Resume
    \/ Close
    \/ ThreadJoin

Spec == Init /\ [][Next]_vars

\* the steps of the generation thread
GenStep == (\E c \in Chunks : GenPut(c) \/ GenEnd(c)) \/ GenReturn \/ GenFail

\* the steps of the main thread that do not depend on the caller or on time
MainStep == StartThread \/ StreamerNext \/ StreamerStop \/ ThreadJoin

FairInit == SetupDone /\ PredictStart(FairMaxTokens)

\* both threads are scheduled, a caller that does not close the generator
\* keeps asking for chunks, and time passes while the main thread waits
FairSpec ==
    /\ FairInit
    /\ [][Next]_vars
    /\ WF_vars(GenStep)
    /\ WF_vars(MainStep)
    /\ WF_vars(Resume)
    /\ WF_vars(StreamerTimeout)

(***************************************************************************)
(* setup as a state machine of its own                                     *)
(***************************************************************************)
\* setup is called on a new predictor
SetupInit ==
    /\ weights \in {None} \cup Paths
    /\ archive \in SUBSET ArchiveMembers
    /\ spc = "download"
    /\ downloaded = <<>>
    /\ torch_init_off = FALSE
    /\ custom_dir \in DirsBefore
    /\ dir_before = custom_dir
    /\ pget_calls = <<>>
    /\ loaded = <<>>
    /\ max_tokens = 0
    /\ thread = "none"
    /\ gen_failed = FALSE
    /\ streamed = <<>>
    /\ stop_signal = FALSE
    /\ nread = 0
    /\ pc = "idle"
    /\ prepend_space = FALSE
    /\ yielded = <<>>
    /\ error = "none"
    /\ joined = FALSE

SetupNext ==
    \/ DownloadDefault
    \/ DisableTorchInit
    \/ RemakeDir
    \/ Pget
    \/ Extract
    \/ LoadCustom
    \/ LoadBase
    \/ SetupFail

SetupSpec == SetupInit /\ [][SetupNext]_vars

(***************************************************************************)
(* Properties                                                              *)
(***************************************************************************)
Ended == pc \in {"done", "raised", "closed"}

\* C1: every chunk predict yields is a non-empty string, whatever chunks the
\* streamer delivers (empty ones, single spaces, the bare stop string).
C1_YieldsNonEmpty ==
    \A k \in 1..Len(yielded) : Len(yielded[k].text) > 0

\* the stream held an empty chunk, a single space and a bare stop string, and
\* predict has yielded something and finished
C1_Witness ==
    /\ pc = "done"
    /\ \E i, j \in 1..Len(streamed) : streamed[i] = stop_str /\ streamed[j] = ""
    /\ \E i \in 1..Len(streamed) : streamed[i] = " "
    /\ yielded # <<>>

\* C2: the concatenation of the chunks predict has yielded never contains the
\* stop string.
C2_StopStringStripped ==
    ~Contains(Concat(YieldedText), stop_str)

\* C3: the yielded chunks come from streamed chunks with strictly increasing
\* indices, and each is the chunk it comes from, either as the loop reshapes it
\* alone (stop string cut and stripped) or with the one space held back from the
\* chunk just before it in front.
C3_YieldedInOrder ==
    /\ \A k \in 1..Len(yielded) :
         LET y == yielded[k]
             c == streamed[y.src]
         IN /\ y.src \in 1..nread
            /\ \/ y.text = (IF EndsWith(c, stop_str)
                            THEN Strip(SliceToMinus(c, Len(stop_str))) ELSE c)
               \/ /\ y.src > 1
                  /\ streamed[y.src - 1] = " "
                  /\ y.text = " " \o c
    /\ \A j, k \in 1..Len(yielded) : j < k => yielded[j].src < yielded[k].src

\* three chunks were streamed, the middle one a held-back space, and two chunks
\* were yielded from the first and the third
C3_Witness ==
    /\ Len(streamed) = 3
    /\ streamed[2] = " "
    /\ Len(yielded) = 2
    /\ yielded[1].src = 1
    /\ yielded[2].src = 3
    /\ yielded[2].sp

\* streamed chunk i, a single space, shows in the output: as the leading space
\* of the chunk yielded from chunk i + 1 or, at the end of the stream, as a
\* chunk of its own
SpaceKept(i) ==
    \/ /\ i = Len(streamed)
       /\ \E k \in 1..Len(yielded) : yielded[k] = Yield(" ", i, FALSE)
    \/ /\ i < Len(streamed)
       /\ \E k \in 1..Len(yielded) : yielded[k].src = i + 1 /\ yielded[k].sp

\* C4: once predict has finished normally, a streamed single-space chunk is
\* missing from the output if and only if the chunk right after it ends with the
\* stop string.
C4_OnlySpuriousSpaceDropped ==
    pc = "done" =>
        \A i \in 1..Len(streamed) :
            streamed[i] = " " =>
                (~SpaceKept(i) <=>
                    (i < Len(streamed) /\ EndsWith(streamed[i + 1], stop_str)))

\* C5: when predict's output is exhausted normally the generation thread has
\* terminated and has been joined.
C5_JoinedWhenExhausted ==
    pc = "done" => (thread = "terminated" /\ joined /\ error = "none")

\* predict finished normally after consuming a stream of three chunks
C5_Witness ==
    /\ pc = "done"
    /\ Len(streamed) = 3
    /\ yielded # <<>>

\* C6: once model.generate has failed, predict never reaches the end of its
\* loop as if the stream had ended, and it does not wait for ever: it ends with
\* an error (or the caller has closed it).
C6_GenerateFailurePropagates ==
    /\ [](gen_failed => pc \notin {"yield_space", "join", "done"})
    /\ (gen_failed ~> (pc = "raised" \/ pc = "closed"))

\* generate failed after a chunk was streamed and yielded, and predict raised
C6_Witness ==
    /\ gen_failed
    /\ pc = "raised"
    /\ error = "Empty"
    /\ yielded # <<>>

\* C7: model loading happens only after all default weights are downloaded; when
\* setup returns, exactly one model is loaded: the custom one (from a folder that
\* holds only the downloaded archive and what was extracted from it) iff weights
\* is given and str(weights) is not "weights", else the base model with the
\* custom-weights folder as it was.
C7_SetupLoadsOneModel ==
    /\ loaded # <<>> => downloaded = DEFAULT_WEIGHTS
    /\ spc = "done" =>
        /\ downloaded = DEFAULT_WEIGHTS
        /\ Len(loaded) = 1
        /\ loaded[1] \in {CustomModel, BaseModel}
        /\ loaded[1] = CustomModel <=>
               (weights # None /\ PathStr(weights) # "weights")
        /\ loaded[1] = CustomModel =>
               /\ custom_dir = Dir({"custom_weights.tar"} \cup archive)
               /\ pget_calls = <<PathStr(weights)>>
        /\ loaded[1] = BaseModel =>
               /\ custom_dir = dir_before
               /\ pget_calls = <<>>

\* setup returned with the custom model loaded over a folder that held stale
\* files, for a weights path whose last part is "weights"
C7_Witness ==
    /\ spc = "done"
    /\ loaded = <<CustomModel>>
    /\ "stale.bin" \in dir_before.files
    /\ weights = <<"w", "weights">>

\* C8: once predict has finished normally on a stream in which no chunk ends
\* with the stop string, the yielded chunks concatenate to the streamed text.
C8_TextPreserved ==
    (pc = "done" /\ \A i \in 1..Len(streamed) : ~EndsWith(streamed[i], stop_str))
        => Concat(YieldedText) = Concat(streamed)

\* C9: once the generation thread has run to completion after signalling
\* end-of-stream, predict eventually finishes normally (unless the caller closes
\* it), however long the main thread had to wait for chunks.
C9_FinishesHoweverSlow ==
    (stop_signal /\ thread = "terminated") ~> (pc = "done" \/ pc = "closed")

\* C9, amended: if end-of-stream is signalled and no wait on the empty queue has
\* timed out, predict eventually finishes normally (unless the caller closes it).
C9_FinishesUnlessTimedOut ==
    (stop_signal /\ pc # "raised") ~>
        ((pc = "done" /\ joined /\ error = "none") \/ pc = "closed")

\* predict finished normally, its last chunk being the held-back space
C9_Witness ==
    /\ pc = "done"
    /\ error = "none"
    /\ yielded # <<>>
    /\ yielded[Len(yielded)].text = " "

\* C10: however predict ends, the generation thread is no longer running.
C10_JoinedOnEveryExit ==
    Ended => thread = "terminated"

\* C10, amended: the thread has been joined exactly when predict has ended by
\* normal exhaustion, and a joined thread has terminated.
C10_JoinedOnlyOnExhaustion ==
    /\ joined <=> pc = "done"
    /\ joined => thread = "terminated"

\* predict ended with queue.Empty while the generation thread was still running
C10_Witness ==
    /\ pc = "raised"
    /\ thread = "running"
    /\ ~joined

====
